---- MODULE Spec2Model ----
(***************************************************************************)
(* Campaign scheduler of ig.py (menu_send_rotating, _worker,               *)
(* _handle_event) with its collaborators: the cancellation flag of         *)
(* runtime.py and the send-log ledger of storage.py.                       *)
(*                                                                         *)
(* One scheduler thread, one worker thread per admitted job, the Q-key     *)
(* listener thread and the operator (prompt answers, Ctrl+C).  Time is     *)
(* abstracted: a sleep is a step that ends at some later moment, and a     *)
(* timed wait (queue.get(timeout=...)) may time out whenever the thing it  *)
(* waits for has not happened.                                             *)
(***************************************************************************)
EXTENDS Integers, Sequences, FiniteSets, TLC

\* ---------------------------------------------------------------- bounds
MaxAccounts == 2      \* verified accounts of the alias: 1..MaxAccounts
MaxLeads == 3         \* lines of the lead list file: 0..MaxLeads
MaxPerAcc == 2        \* settings.max_per_account (per_acc is in 2..MaxPerAcc)
MaxConcurr == 2       \* settings.max_concurrency (concurr is in 1..MaxConcurr)
MaxSize == 8          \* accounts + concurrency + cap + lead-file lines of a campaign
MaxDelay == 10        \* seconds given to the helpers of runtime.py: up to MaxDelay
MaxStep == 3          \* the step of sleep_with_stop, in seconds: 1..MaxStep
MaxStored == 2        \* accounts in the account store when the gate runs: 1..MaxStored

\* ------------------------------------------------------ program constants
max_retries == 3      \* ig.py:376
MinPerAcc == 2        \* ig.py:269  max(2, ...)
MinConcurr == 1       \* ig.py:284  max(1, ...)

None == "None"

Min(a, b) == IF a <= b THEN a ELSE b

\* ---------------------------------------------------------------- handles
\* Recipient handles as they appear in lead files and ledger records.
Handles == {"Ana", "ana", "ANA", "bob"}

\* str.lower() on the handles above
Lower(h) == IF h \in {"Ana", "ANA"} THEN "ana" ELSE h

\* An account outside the campaign's alias that wrote earlier ledger records.
OtherAccount == MaxAccounts + 1

\* ----------------------------------------------------------------- ledger
\* storage.log_sent builds this record (ts is wall-clock time, left out)
LedgerRecord(account, to, okflag, detail) ==
  [account |-> account, to |-> to, ok |-> okflag, detail |-> detail]

\* already_contacted comparing the handles as written
already_contacted_exact(username, led) ==
  \E i \in DOMAIN led : led[i].to = username

\* storage.already_contacted: case-insensitive match on the "to" field of
\* any record, success or failure, whatever the sender
already_contacted(username, led) ==
  \E i \in DOMAIN led : Lower(led[i].to) = Lower(username)

\* storage.sent_totals: (ok_count, error_count) over all records
sent_totals(led) ==
  <<Cardinality({i \in DOMAIN led : led[i].ok}),
    Cardinality({i \in DOMAIN led : ~led[i].ok})>>

\* Ledger contents found on disk when a campaign starts: nothing, a failed
\* send to ANA, or a successful send to bob, by an account of another alias.
PriorLedgers ==
  { <<>>,
    <<LedgerRecord(OtherAccount, "ANA", FALSE, "envío falló")>>,
    <<LedgerRecord(OtherAccount, "bob", TRUE, "")>> }

\* line i of the lead file: Ana, bob, ana, Ana, bob, ana, ...
LeadLine(i) ==
  CASE i % 3 = 1 -> "Ana"
    [] i % 3 = 2 -> "bob"
    [] OTHER -> "ana"

\* leads.load_list: the file's non-blank lines, in order, duplicates kept;
\* the files considered are the first n lines above
LeadLists == {[i \in 1..n |-> LeadLine(i)] : n \in 0..MaxLeads}

\* ------------------------------------------------------------- exceptions
\* What a transport call (_client_for, _send_dm) can raise.  An exception is
\* its class and the keywords its text contains.
ProxyError == [cls |-> "ProxyError", text |-> "proxy error", words |-> {}]
ProxyRuntimeError ==
  [cls |-> "RuntimeError", text |-> "El proxy configurado no respondió",
   words |-> {"proxy"}]
SessionInvalid ==
  [cls |-> "RuntimeError", text |-> "La sesión guardada no es válida",
   words |-> {}]
ChallengeRequired ==
  [cls |-> "ClientError", text |-> "challenge_required",
   words |-> {"challenge_required"}]

\* What goes wrong inside a call of the client library: the proxy cannot be
\* reached ("infra": requests raises ProxyError) or Instagram answers with a
\* policy fault ("policy": challenge required).
FaultKinds == {"infra", "policy"}

\* the exception the library call raises for a fault of that kind
LibraryRaises(kind) == IF kind = "infra" THEN ProxyError ELSE ChallengeRequired

\* Faults inside _client_for, as <<step, kind>>: the proxy probe of
\* apply_proxy_to_client ("probe", a network call to the proxy only), load_into
\* ("load") and get_timeline_feed ("feed").
OpenFaults ==
  {<<"probe", "infra">>, <<"load", "policy">>, <<"feed", "infra">>, <<"feed", "policy">>}

\* ig._client_for (ig.py:65-102): the exception that leaves it when a fault of
\* `kind` occurs at `step`, for an account with a proxy of its own.  A probe
\* failure becomes the RuntimeError of line 76, an exception of load_into is
\* re-raised as it is (line 90), every exception of get_timeline_feed becomes
\* the RuntimeError of line 99.
client_for_raises(step, kind) ==
  CASE step = "probe" -> ProxyRuntimeError
    [] step = "load" -> LibraryRaises(kind)
    [] OTHER -> SessionInvalid

\* exceptions that leave _client_for (ig.py:65-102)
ClientForRaises == {client_for_raises(f[1], f[2]) : f \in OpenFaults}

RetryClasses == {"ProxyError", "ConnectTimeout", "ReadTimeout", "SSLError", "ConnectionError"}
RetryKeywords == {"proxy", "timed out", "timeout", "407", "dns", "tunnel", "connection aborted"}

\* a classification that takes every exception for a proxy fault
should_retry_always(exc) == TRUE

\* proxy_manager.should_retry_proxy
should_retry_proxy(exc) ==
  \/ exc.cls \in RetryClasses
  \/ exc.words \cap RetryKeywords # {}

\* ig._send_dm (ig.py:113-122): an exception of user_id_from_username or
\* direct_send is re-raised when should_retry_proxy says so; any other is
\* logged at debug level and the call returns False
send_dm_reraises(kind) == should_retry_proxy(LibraryRaises(kind))

\* the faults of one attempt (_client_for, then _send_dm) that reach the
\* worker's except clause, and the exception each arrives as
AttemptFaults ==
  OpenFaults \cup {<<"send", kind>> : kind \in {k \in FaultKinds : send_dm_reraises(k)}}

AttemptRaises(f) ==
  IF f[1] = "send" THEN LibraryRaises(f[2]) ELSE client_for_raises(f[1], f[2])

\* ig._diagnose_exception: first key of the mapping found in the text
DiagnoseKeys ==
  <<"login_required", "challenge_required", "feedback_required",
    "rate_limit", "checkpoint", "consent_required">>

DiagnoseMessage(key) ==
  CASE key = "login_required" -> "Instagram solicitó un nuevo login."
    [] key = "challenge_required" -> "Se requiere resolver un challenge en la app."
    [] key = "feedback_required" -> "Instagram bloqueó temporalmente acciones de esta cuenta."
    [] key = "rate_limit" -> "Se alcanzó un rate limit. Conviene pausar unos minutos."
    [] key = "checkpoint" -> "Instagram requiere verificación adicional (checkpoint)."
    [] OTHER -> "La sesión requiere aprobación en la app oficial."

_diagnose_exception(exc) ==
  LET hits == {i \in DOMAIN DiagnoseKeys : DiagnoseKeys[i] \in exc.words} IN
  IF hits = {} THEN None
  ELSE DiagnoseMessage(DiagnoseKeys[CHOOSE i \in hits : \A k \in hits : i <= k])

\* the attention message of ig.py:404-407, which names the account
ProxyAttention(username) ==
  "El proxy configurado para @" \o ToString(username) \o " falló repetidamente."

\* ------------------------------------------------------------------ state
VARIABLES
  accounts,       \* list of verified account usernames, in visiting order
  per_acc,        \* per-account cap
  concurr,        \* concurrency cap
  users,          \* deque of recipients still to be sent to
  remaining,      \* username -> remaining budget
  success,        \* username -> successes of this campaign
  failed,         \* username -> failures of this campaign
  semaphore,      \* free slots of threading.Semaphore(concurr)
  account_locks,  \* username -> TRUE when the account's Lock is held
  result_queue,   \* queue.Queue of SendEvent
  threads,        \* the worker threads started, in admission order
  STOP_EVENT,     \* runtime.STOP_EVENT
  ledger,         \* records of sent_log.jsonl
  LIVE_COUNTS,    \* ig._LIVE_COUNTS
  spc,            \* position of the scheduler thread in menu_send_rotating
  idx,            \* position of the "for account in accounts" loop
  prompt,         \* escalation prompt waiting for the operator, or NoPrompt
  exc,            \* TRUE while an exception is propagating out of the try
  consumed,       \* history: events taken off result_queue by the scheduler
  summaries,      \* history: times the final summary was printed
  admitsAfterStop,\* history: admissions made with STOP_EVENT already set
  ledger0,        \* history: the ledger when the campaign started
  users0,         \* history: the filtered recipient list at campaign start
  sched_holds,    \* account whose lock (and a slot) the scheduler thread holds, or 0
  call            \* a call of a runtime.py helper outside a campaign, or NoCall

vars ==
  <<accounts, per_acc, concurr, users, remaining, success, failed, semaphore,
    account_locks, result_queue, threads, STOP_EVENT, ledger, LIVE_COUNTS,
    spc, idx, prompt, exc, consumed, summaries, admitsAfterStop, ledger0,
    users0, sched_holds, call>>

\* no helper call is being followed
NoCall == [fn |-> None]

\* lost is history: a line the operator typed as the answer was read by the
\* Q listener instead
NoPrompt == [username |-> 0, ret |-> None, lost |-> FALSE]

\* ig.SendEvent
SendEvent(username, lead, okflag, detail, attention) ==
  [username |-> username, lead |-> lead, success |-> okflag,
   detail |-> detail, attention |-> attention]

\* ig._reset_live_counters(reset_run=True)
ResetLiveCounters(led) ==
  [base_ok |-> sent_totals(led)[1], base_fail |-> sent_totals(led)[2],
   run_ok |-> 0, run_fail |-> 0]

\* ig.get_message_totals
get_message_totals ==
  <<LIVE_COUNTS.base_ok + LIVE_COUNTS.run_ok,
    LIVE_COUNTS.base_fail + LIVE_COUNTS.run_fail>>

\* a start that goes on with an empty recipient list
StartPositionNoCheck(filtered) == "while"

\* ig.py:344-348  "if not users: ... return"
StartPosition(filtered) == IF filtered = <<>> THEN "returned" ELSE "while"

\* menu_send_rotating up to the start of the scheduling loop (lines 319-369)
\* for n verified accounts, cap per_acc, concurrency c, the lead file `leads`
\* and the ledger `led`: the stop flag is reset, the counters are seeded from
\* the ledger, the lead list is filtered against the ledger, budgets, locks
\* and the semaphore are created.  An empty filtered list returns at once
\* (line 345-348).
InitWith(n, cap, c, leads, led) ==
  LET filtered == SelectSeq(leads, LAMBDA u : ~already_contacted(u, led)) IN
  /\ accounts = [i \in 1..n |-> i]
  /\ per_acc = cap
  /\ concurr = c
  /\ users = filtered
  /\ users0 = filtered
  /\ remaining = [a \in 1..n |-> cap]
  /\ success = [a \in 1..n |-> 0]
  /\ failed = [a \in 1..n |-> 0]
  /\ semaphore = c
  /\ account_locks = [a \in 1..n |-> FALSE]
  /\ result_queue = <<>>
  /\ threads = <<>>
  /\ STOP_EVENT = FALSE
  /\ ledger = led
  /\ ledger0 = led
  /\ LIVE_COUNTS = ResetLiveCounters(led)
  /\ spc = StartPosition(filtered)
  /\ idx = 1
  /\ prompt = NoPrompt
  /\ exc = FALSE
  /\ consumed = 0
  /\ summaries = 0
  /\ admitsAfterStop = 0
  /\ sched_holds = 0

\* the campaigns considered: every choice of accounts, cap, concurrency, lead
\* file and prior ledger within the bounds
Init ==
  \E n \in 1..MaxAccounts, cap \in MinPerAcc..MaxPerAcc,
     c \in MinConcurr..MaxConcurr, leads \in LeadLists, led \in PriorLedgers :
    /\ n + c + cap + Len(leads) <= MaxSize
    /\ InitWith(n, cap, c, leads, led)
    /\ call = NoCall

Usernames == DOMAIN remaining

\* ------------------------------------------------------- cancellation flag
\* a request_stop that flips the flag
request_stop_toggle(flag) == ~flag

\* runtime.request_stop: sets the flag unless it is already set
request_stop(flag) == IF ~flag THEN TRUE ELSE flag

\* the for-loop without its stop checks
AdmissionStopCheckOff == FALSE

\* the "if STOP_EVENT.is_set(): break" checks inside the admission for-loop
\* (ig.py:461 and ig.py:489)
AdmissionStopCheck == STOP_EVENT

\* ------------------------------------------------------------ admission
\* a budget check that lets every account through
BudgetSpentNever(username) == FALSE

\* ig.py:464  "if remaining[username] <= 0: continue"
BudgetSpent(username) == remaining[username] <= 0

\* an admission that leaves the budget as it was
BudgetAfterAdmitKept(budget) == budget

\* ig.py:479  remaining[username] -= 1
BudgetAfterAdmit(budget) == budget - 1

\* an acquire that succeeds on a held lock
LockAcquiredAlways(username) == TRUE

\* ig.py:469  account_lock.acquire(blocking=False) succeeds
LockAcquired(username) == ~account_locks[username]

\* an acquire that succeeds with no free slot
SlotAcquiredAlways == TRUE

\* ig.py:472  semaphore.acquire(timeout=0.1) succeeds
SlotAcquired == semaphore > 0

\* a loop that goes on only while every account has budget left
LoopConditionAllBudgets ==
  /\ users # <<>>
  /\ \A a \in Usernames : remaining[a] > 0
  /\ ~STOP_EVENT

\* a slot timeout after which the account lock stays acquired
LockKeptAfterTimeout(locks, username) == [locks EXCEPT ![username] = TRUE]

\* ig.py:473-475  the slot was not obtained: account_lock.release()
LockAfterTimeout(locks, username) == [locks EXCEPT ![username] = FALSE]

\* ig.py:444  the condition of the scheduling loop
LoopCondition ==
  /\ users # <<>>
  /\ \E a \in Usernames : remaining[a] > 0
  /\ ~STOP_EVENT

\* a worker thread as created at ig.py:481-486, before it runs; attempts,
\* emitted, called, faults and waits are history: transport attempts made,
\* events put, whether the transport was called, kinds of fault the attempts
\* met, seconds given to sleep_with_stop by each backoff
NewThread(username, lead) ==
  [username |-> username, lead |-> lead, pc |-> "start", retries |-> 0,
   success_flag |-> FALSE, detail |-> "", attention |-> None,
   attempts |-> 0, emitted |-> 0, called |-> FALSE, faults |-> {},
   waits |-> <<>>]

\* a worker thread past the put of its event, at position pc: its local
\* variables (retries, success_flag, detail, attention) are not read again,
\* nor is what its attempts met (attempts, faults, waits);
\* what stays is the history of what it did (events put, transport called)
AfterPut(t, pc) ==
  [NewThread(t.username, t.lead) EXCEPT
     !.pc = pc, !.emitted = t.emitted + 1, !.called = t.called]

\* ------------------------------------------------------ result aggregation
\* a log_sent that opens the file for writing, not appending
log_sent_rewrite(led, account, username, okflag, detail) ==
  <<LedgerRecord(account, username, okflag, detail)>>

\* storage.log_sent: append one record
log_sent(led, account, username, okflag, detail) ==
  Append(led, LedgerRecord(account, username, okflag, detail))

\* ig.py:191  detail = event.detail or "envío falló"
FailDetail(event) == IF event.detail = "" THEN "envío falló" ELSE event.detail

\* where the scheduler goes on after _handle_event returned `action`
\* (ig.py:450-453 in the loop, ig.py:502 in the drain, which ignores it)
AfterHandle(ret, action) ==
  IF ret = "drain" THEN "drain"
  ELSE IF action = "stop" THEN "stopcheck" ELSE "events"

\* ig.py:509-513  the finally clause requests the stop when the queue or the
\* budgets are exhausted
FinallyStop(flag) ==
  IF users = <<>> THEN request_stop(flag)
  ELSE IF ~(\E a \in Usernames : remaining[a] > 0) THEN request_stop(flag)
  ELSE flag

\* a get that returns the event put last
NewestEvent(q) == q[Len(q)]

\* ig.py:449 and ig.py:501  result_queue.get_nowait() / get(timeout=0.5):
\* queue.Queue hands out the event put first
NextEvent(q) == Head(q)

\* ig._handle_event up to the prompt (lines 177-199), for the event at the
\* head of result_queue; `ret` is the call site.  log_sent may raise (the
\* file cannot be opened or written): the per-account counter is already
\* incremented, nothing is appended, and the exception leaves the try block
\* of menu_send_rotating through its finally clause (ig.py:509-513), which
\* then joins the threads.
HandleEvent(ret) ==
  LET event == NextEvent(result_queue)
      username == event.username IN
  /\ result_queue' = Tail(result_queue)
  /\ consumed' = consumed + 1
  /\ success' = IF event.success THEN [success EXCEPT ![username] = @ + 1] ELSE success
  /\ failed' = IF event.success THEN failed ELSE [failed EXCEPT ![username] = @ + 1]
  /\ \/ /\ ledger' = IF event.success
                       THEN log_sent(ledger, username, event.lead, TRUE, "")
                       ELSE log_sent(ledger, username, event.lead, FALSE, FailDetail(event))
        /\ LIVE_COUNTS' = IF event.success
                            THEN [LIVE_COUNTS EXCEPT !.run_ok = @ + 1]
                            ELSE [LIVE_COUNTS EXCEPT !.run_fail = @ + 1]
        /\ IF event.attention # None
             THEN /\ prompt' = [username |-> username, ret |-> ret, lost |-> FALSE]
                  /\ spc' = "prompt"
             ELSE /\ prompt' = prompt
                  /\ spc' = AfterHandle(ret, None)
        /\ exc' = exc
        /\ STOP_EVENT' = STOP_EVENT
     \/ /\ exc' = TRUE
        /\ STOP_EVENT' = FinallyStop(STOP_EVENT)
        /\ spc' = "join"
        /\ UNCHANGED <<ledger, LIVE_COUNTS, prompt>>

\* ig.py:492-496 and 444  the tick ends (render, sleep) and the loop
\* condition is evaluated again: the next tick, or the drain
NextTick(cond) == IF cond THEN "events" ELSE "drain"

\* ig.py:444  first evaluation of the loop condition
SchedWhile ==
  /\ spc = "while"
  /\ spc' = NextTick(LoopCondition)
  /\ UNCHANGED <<call, accounts, per_acc, concurr, users, remaining, success, failed,
                 semaphore, account_locks, result_queue, threads, STOP_EVENT,
                 ledger, LIVE_COUNTS, idx, prompt, exc, consumed, summaries,
                 admitsAfterStop, ledger0, users0,
                 sched_holds>>

\* ig.py:447-455  process one pending result, or find the queue empty
SchedEvents ==
  /\ spc = "events"
  /\ IF result_queue = <<>>
       THEN /\ spc' = "stopcheck"
            /\ UNCHANGED <<result_queue, consumed, success, failed, ledger,
                           LIVE_COUNTS, prompt, exc, STOP_EVENT>>
       ELSE HandleEvent("loop")
  /\ UNCHANGED <<call, accounts, per_acc, concurr, users, remaining, semaphore,
                 account_locks, threads, idx, summaries,
                 admitsAfterStop, ledger0, users0,
                 sched_holds>>

\* a retirement that zeroes every account's budget
RetireAll(budgets, username) == [a \in DOMAIN budgets |-> 0]

\* ig.py:209  remaining[username] = 0
RetireAccount(budgets, username) == [budgets EXCEPT ![username] = 0]

\* ig.py:207-214  the operator answers the escalation prompt with `choice`:
\* "1" (or an empty line, read as "1") retires the account, anything else
\* requests the stop
PromptAnswer(choice) ==
  /\ spc = "prompt"
  /\ IF choice = "1"
       THEN /\ remaining' = RetireAccount(remaining, prompt.username)
            /\ STOP_EVENT' = STOP_EVENT
            /\ spc' = AfterHandle(prompt.ret, "continue")
       ELSE /\ remaining' = remaining
            /\ STOP_EVENT' = request_stop(STOP_EVENT)
            /\ spc' = AfterHandle(prompt.ret, "stop")
  /\ prompt' = NoPrompt
  /\ UNCHANGED <<call, accounts, per_acc, concurr, users, success, failed, semaphore,
                 account_locks, result_queue, threads, ledger, LIVE_COUNTS,
                 idx, exc, consumed, summaries, admitsAfterStop, ledger0,
                 users0,
                 sched_holds>>

\* ig.py:200-214  the prompt is answered
SchedPrompt == \E choice \in {"1", "2"} : PromptAnswer(choice)

\* ig.py:457-460  stop check after the results, then start the for-loop
SchedStopCheck ==
  /\ spc = "stopcheck"
  /\ IF STOP_EVENT
       THEN spc' = "drain" /\ idx' = idx
       ELSE spc' = "for" /\ idx' = 1
  /\ UNCHANGED <<call, accounts, per_acc, concurr, users, remaining, success, failed,
                 semaphore, account_locks, result_queue, threads, STOP_EVENT,
                 ledger, LIVE_COUNTS, prompt, exc, consumed, summaries,
                 admitsAfterStop, ledger0, users0,
                 sched_holds>>

\* ig.py:460-475  one iteration of the for-loop up to the two acquisitions;
\* the end of the loop (or a break) ends the tick
SchedFor ==
  /\ spc = "for"
  /\ IF idx > Len(accounts) \/ AdmissionStopCheck
       THEN /\ spc' = NextTick(LoopCondition)
            /\ UNCHANGED <<idx, account_locks, semaphore, sched_holds>>
       ELSE LET username == accounts[idx] IN
            IF BudgetSpent(username)
              THEN /\ idx' = idx + 1
                   /\ UNCHANGED <<spc, account_locks, semaphore, sched_holds>>
            ELSE IF users = <<>>
              THEN /\ spc' = NextTick(LoopCondition)
                   /\ UNCHANGED <<idx, account_locks, semaphore, sched_holds>>
            ELSE IF ~LockAcquired(username)
              THEN /\ idx' = idx + 1
                   /\ UNCHANGED <<spc, account_locks, semaphore, sched_holds>>
            ELSE IF ~SlotAcquired
              THEN /\ idx' = idx + 1
                   /\ account_locks' = LockAfterTimeout(account_locks, username)
                   /\ UNCHANGED <<spc, semaphore, sched_holds>>
            ELSE /\ account_locks' = [account_locks EXCEPT ![username] = TRUE]
                 /\ semaphore' = semaphore - 1
                 /\ spc' = "admit"
                 /\ idx' = idx
                 /\ sched_holds' = username
  /\ UNCHANGED <<call, accounts, per_acc, concurr, users, remaining, success, failed,
                 result_queue, threads, STOP_EVENT, ledger, LIVE_COUNTS,
                 prompt, exc, consumed, summaries, admitsAfterStop, ledger0,
                 users0>>

\* ig.py:477-490  admit the job: pop the front recipient, decrement the
\* budget, start the worker thread, then the stop check of line 489 (a break
\* ends the tick, and the loop with it, the flag being set)
SchedAdmit ==
  /\ spc = "admit"
  /\ LET username == accounts[idx] IN
     /\ users' = Tail(users)
     /\ remaining' = [remaining EXCEPT ![username] = BudgetAfterAdmit(@)]
     /\ threads' = Append(threads, NewThread(username, Head(users)))
  /\ sched_holds' = 0
  /\ admitsAfterStop' = IF STOP_EVENT THEN admitsAfterStop + 1 ELSE admitsAfterStop
  /\ UNCHANGED <<call, accounts, per_acc, concurr, success, failed, semaphore,
                 account_locks, result_queue, STOP_EVENT, ledger, LIVE_COUNTS,
                 prompt, exc, consumed, summaries, ledger0, users0>>
  /\ IF AdmissionStopCheck
       THEN spc' = NextTick(LoopCondition') /\ idx' = idx
       ELSE spc' = "for" /\ idx' = idx + 1

\* ig.py:498-513  drain: handle an event if there is one; with the queue
\* empty, get(timeout=0.5) raises queue.Empty, the drain ends and the finally
\* clause requests the stop when the queue or the budgets are exhausted
SchedDrain ==
  /\ spc = "drain"
  /\ IF result_queue = <<>>
       THEN /\ spc' = "join"
            /\ STOP_EVENT' = FinallyStop(STOP_EVENT)
            /\ UNCHANGED <<result_queue, consumed, success, failed, ledger,
                           LIVE_COUNTS, prompt, exc>>
       ELSE HandleEvent("drain")
  /\ UNCHANGED <<call, accounts, per_acc, concurr, users, remaining, semaphore,
                 account_locks, threads, idx, summaries,
                 admitsAfterStop, ledger0, users0,
                 sched_holds>>

\* ig.py:515-521  all threads joined; counters re-seeded from the ledger.  A
\* propagating exception then leaves menu_send_rotating without the summary.
SchedJoin ==
  /\ spc = "join"
  /\ \A j \in DOMAIN threads : threads[j].pc = "done"
  /\ LIVE_COUNTS' = ResetLiveCounters(ledger)
  /\ spc' = IF exc THEN "crashed" ELSE "summary"
  /\ UNCHANGED <<call, accounts, per_acc, concurr, users, remaining, success, failed,
                 semaphore, account_locks, result_queue, threads, STOP_EVENT,
                 ledger, idx, prompt, exc, consumed, summaries,
                 admitsAfterStop, ledger0, users0,
                 sched_holds>>

\* ig.py:523-531  the final summary
SchedSummary ==
  /\ spc = "summary"
  /\ summaries' = summaries + 1
  /\ spc' = "done"
  /\ UNCHANGED <<call, accounts, per_acc, concurr, users, remaining, success, failed,
                 semaphore, account_locks, result_queue, threads, STOP_EVENT,
                 ledger, LIVE_COUNTS, idx, prompt, exc, consumed,
                 admitsAfterStop, ledger0, users0,
                 sched_holds>>

\* positions of the scheduler inside the try block (ig.py:442-505)
TryPcs == {"while", "events", "prompt", "stopcheck", "for", "admit", "drain"}

\* positions inside the finally clause (ig.py:515-521: joining the threads)
FinallyPcs == {"join"}

\* ig.py:477-487  what an admission has done when it is interrupted after
\* `steps` of its statements: 0 nothing yet, 1 the front recipient is popped,
\* 2 the budget is decremented too (the thread is not yet started)
AdmissionSteps == {0, 1, 2}

\* Ctrl+C raises KeyboardInterrupt in the scheduler thread.  Inside the try
\* block it is caught at ig.py:507-508 (request_stop, then the finally
\* clause up to the join); inside the finally clause nothing catches it and
\* it leaves menu_send_rotating.  An admission under way is cut short where
\* the interrupt meets it; the lock and the slot it acquired stay acquired.
KeyboardInterrupt ==
  /\ spc \in TryPcs \cup FinallyPcs
  /\ \E steps \in (IF spc = "admit" THEN AdmissionSteps ELSE {0}) :
       /\ users' = IF steps >= 1 THEN Tail(users) ELSE users
       /\ remaining' = IF steps >= 2
                          THEN [remaining EXCEPT ![accounts[idx]] = BudgetAfterAdmit(@)]
                          ELSE remaining
       /\ IF spc \in TryPcs
            THEN /\ STOP_EVENT' = FinallyStop(request_stop(STOP_EVENT))
                 /\ spc' = "join"
            ELSE /\ STOP_EVENT' = STOP_EVENT
                 /\ spc' = "crashed"
  /\ prompt' = NoPrompt
  /\ UNCHANGED <<call, accounts, per_acc, concurr, success, failed,
                 semaphore, account_locks, result_queue, threads, ledger,
                 LIVE_COUNTS, idx, exc, consumed, summaries, admitsAfterStop,
                 ledger0, users0,
                 sched_holds>>

\* runtime.start_q_listener._watch: the operator types Q while the listener
\* loop is running (it runs while the flag is clear)
QPressed ==
  /\ spc \in TryPcs \cup FinallyPcs
  /\ ~STOP_EVENT
  /\ STOP_EVENT' = request_stop(STOP_EVENT)
  /\ UNCHANGED <<call, accounts, per_acc, concurr, users, remaining, success, failed,
                 semaphore, account_locks, result_queue, threads, ledger,
                 LIVE_COUNTS, spc, idx, prompt, exc, consumed, summaries,
                 admitsAfterStop, ledger0, users0,
                 sched_holds>>

\* runtime.py:82-87 against ig.py:207  The operator types the answer to the
\* prompt while the listener loop is running: _watch and input() both read
\* standard input, and the line goes to whichever read gets it.  Here
\* select() reports the line and the listener's readline() takes it; not
\* being "q", it is dropped, and the prompt goes on waiting.
QListenerTakesAnswer ==
  /\ spc = "prompt"
  /\ ~STOP_EVENT
  /\ prompt' = [prompt EXCEPT !.lost = TRUE]
  /\ UNCHANGED <<call, accounts, per_acc, concurr, users, remaining, success, failed,
                 semaphore, account_locks, result_queue, threads, STOP_EVENT,
                 ledger, LIVE_COUNTS, spc, idx, exc, consumed, summaries,
                 admitsAfterStop, ledger0, users0, sched_holds>>

\* ----------------------------------------------------------------- worker
\* ig.py:421-422  after the loop: a failure without detail gets the default
TailDetail(okflag, detail) ==
  IF ~okflag /\ detail = "" THEN "envío falló" ELSE detail

\* a worker loop that never looks at the flag
WorkerStopCheckOff == FALSE

\* ig.py:381  "while not STOP_EVENT.is_set()": the flag as the worker reads it
\* before an attempt
WorkerStopCheck == STOP_EVENT

\* a finally clause that goes to the jitter sleep without the put
WorkerFinallyNoPut == "jitter"

\* where the worker goes when it leaves the try block, by `return`
\* (ig.py:380) or by falling off its end: the finally clause (ig.py:423)
WorkerFinally == "emit"

\* a `return` that skips the put of the finally clause
ReturnSkipsPut == "jitter"

\* ig.py:380  `return` inside the try block: control passes to the finally
\* clause
ReturnTarget == WorkerFinally

\* a backoff of 5 seconds whatever the attempt
wait_retry_flat(retries) == 5

\* ig.py:393  wait_retry = min(30, 5 * retries)
wait_retry(retries) == Min(30, 5 * retries)

\* ig.py:402  the retry ceiling is reached
RetriesExhausted(retries) == retries >= max_retries

\* ig.py:378-380  a worker that finds the flag set returns without sending
WorkerStart(j) ==
  /\ j \in DOMAIN threads
  /\ threads[j].pc = "start"
  /\ threads' = [threads EXCEPT ![j].pc = IF STOP_EVENT THEN ReturnTarget ELSE "loop"]
  /\ UNCHANGED <<call, accounts, per_acc, concurr, users, remaining, success, failed,
                 semaphore, account_locks, result_queue, STOP_EVENT, ledger,
                 LIVE_COUNTS, spc, idx, prompt, exc, consumed, summaries,
                 admitsAfterStop, ledger0, users0,
                 sched_holds>>

\* ig.py:381  the flag is set when the loop condition is evaluated
WorkerLoopExit(j) ==
  /\ j \in DOMAIN threads
  /\ threads[j].pc = "loop"
  /\ WorkerStopCheck
  /\ threads' = [threads EXCEPT
                   ![j].detail = TailDetail(threads[j].success_flag, @),
                   ![j].pc = WorkerFinally]
  /\ UNCHANGED <<call, accounts, per_acc, concurr, users, remaining, success, failed,
                 semaphore, account_locks, result_queue, STOP_EVENT, ledger,
                 LIVE_COUNTS, spc, idx, prompt, exc, consumed, summaries,
                 admitsAfterStop, ledger0, users0,
                 sched_holds>>

\* ig.py:383-387  _client_for and _send_dm return: the send succeeded, or
\* _send_dm swallowed the exception of a fault and returned False
WorkerSend(j) ==
  /\ j \in DOMAIN threads
  /\ threads[j].pc = "loop"
  /\ ~WorkerStopCheck
  /\ \E fault \in {None} \cup {k \in FaultKinds : ~send_dm_reraises(k)} :
       LET sent == (fault = None) IN
       threads' = [threads EXCEPT
                     ![j].attempts = @ + 1,
                     ![j].called = TRUE,
                     ![j].faults = IF sent THEN @ ELSE @ \cup {fault},
                     ![j].success_flag = sent,
                     ![j].detail = IF sent THEN TailDetail(sent, @) ELSE "envío falló",
                     ![j].pc = WorkerFinally]
  /\ UNCHANGED <<call, accounts, per_acc, concurr, users, remaining, success, failed,
                 semaphore, account_locks, result_queue, STOP_EVENT, ledger,
                 LIVE_COUNTS, spc, idx, prompt, exc, consumed, summaries,
                 admitsAfterStop, ledger0, users0,
                 sched_holds>>

\* ig.py:388-420  the attempt raises: a proxy fault is retried after a
\* backoff until the ceiling, any other exception ends the job
WorkerRaise(j) ==
  /\ j \in DOMAIN threads
  /\ threads[j].pc = "loop"
  /\ ~WorkerStopCheck
  /\ \E f \in AttemptFaults :
       LET t == threads[j]
           e == AttemptRaises(f) IN
       IF should_retry_proxy(e)
         THEN IF RetriesExhausted(t.retries + 1)
                THEN threads' = [threads EXCEPT
                                   ![j].attempts = @ + 1,
                                   ![j].called = TRUE,
                                   ![j].faults = @ \cup {f[2]},
                                   ![j].retries = @ + 1,
                                   ![j].detail = "proxy sin respuesta",
                                   ![j].attention = ProxyAttention(t.username),
                                   ![j].pc = WorkerFinally]
                ELSE threads' = [threads EXCEPT
                                   ![j].attempts = @ + 1,
                                   ![j].called = TRUE,
                                   ![j].faults = @ \cup {f[2]},
                                   ![j].retries = @ + 1,
                                   ![j].waits = Append(@, wait_retry(t.retries + 1)),
                                   ![j].pc = "backoff"]
         ELSE threads' = [threads EXCEPT
                            ![j].attempts = @ + 1,
                            ![j].called = TRUE,
                            ![j].faults = @ \cup {f[2]},
                            ![j].detail = TailDetail(FALSE, e.text),
                            ![j].attention = _diagnose_exception(e),
                            ![j].pc = WorkerFinally]
  /\ UNCHANGED <<call, accounts, per_acc, concurr, users, remaining, success, failed,
                 semaphore, account_locks, result_queue, STOP_EVENT, ledger,
                 LIVE_COUNTS, spc, idx, prompt, exc, consumed, summaries,
                 admitsAfterStop, ledger0, users0,
                 sched_holds>>

\* ig.py:409-410  sleep_with_stop(wait_retry), begun by WorkerRaise with the
\* last of waits, returns (the wait elapsed or
\* the flag was set) and the loop condition is evaluated again
WorkerBackoff(j) ==
  /\ j \in DOMAIN threads
  /\ threads[j].pc = "backoff"
  /\ threads' = [threads EXCEPT ![j].pc = "loop"]
  /\ UNCHANGED <<call, accounts, per_acc, concurr, users, remaining, success, failed,
                 semaphore, account_locks, result_queue, STOP_EVENT, ledger,
                 LIVE_COUNTS, spc, idx, prompt, exc, consumed, summaries,
                 admitsAfterStop, ledger0, users0,
                 sched_holds>>

\* ig.py:424-438  finally: put the result event, then start the jitter sleep
WorkerEmit(j) ==
  /\ j \in DOMAIN threads
  /\ threads[j].pc = "emit"
  /\ LET t == threads[j] IN
     result_queue' = Append(result_queue,
                            SendEvent(t.username, t.lead, t.success_flag,
                                      t.detail, t.attention))
  /\ threads' = [threads EXCEPT ![j] = AfterPut(@, "jitter")]
  /\ UNCHANGED <<call, accounts, per_acc, concurr, users, remaining, success, failed,
                 semaphore, account_locks, STOP_EVENT, ledger, LIVE_COUNTS,
                 spc, idx, prompt, exc, consumed, summaries, admitsAfterStop,
                 ledger0, users0,
                 sched_holds>>

\* ig.py:438-439  the jitter sleep returns and the account lock is released
WorkerReleaseLock(j) ==
  /\ j \in DOMAIN threads
  /\ threads[j].pc = "jitter"
  /\ account_locks' = [account_locks EXCEPT ![threads[j].username] = FALSE]
  /\ threads' = [threads EXCEPT ![j].pc = "release_sem"]
  /\ UNCHANGED <<call, accounts, per_acc, concurr, users, remaining, success, failed,
                 semaphore, result_queue, STOP_EVENT, ledger, LIVE_COUNTS,
                 spc, idx, prompt, exc, consumed, summaries, admitsAfterStop,
                 ledger0, users0,
                 sched_holds>>

\* a worker that ends without returning its slot
SemReleaseLost(free) == free

\* the semaphore after semaphore.release()
SemRelease(free) == free + 1

\* ig.py:440  the concurrency slot is released and the thread ends
WorkerReleaseSem(j) ==
  /\ j \in DOMAIN threads
  /\ threads[j].pc = "release_sem"
  /\ semaphore' = SemRelease(semaphore)
  /\ threads' = [threads EXCEPT ![j].pc = "done"]
  /\ UNCHANGED <<call, accounts, per_acc, concurr, users, remaining, success, failed,
                 account_locks, result_queue, STOP_EVENT, ledger, LIVE_COUNTS,
                 spc, idx, prompt, exc, consumed, summaries, admitsAfterStop,
                 ledger0, users0,
                 sched_holds>>

\* one step of worker thread j
Worker(j) ==
  \/ WorkerStart(j)
  \/ WorkerLoopExit(j)
  \/ WorkerSend(j)
  \/ WorkerRaise(j)
  \/ WorkerBackoff(j)
  \/ WorkerEmit(j)
  \/ WorkerReleaseLock(j)
  \/ WorkerReleaseSem(j)

\* at most one thread per line of the lead file
MaxThreads == MaxLeads + 1

Next ==
  \/ SchedWhile
  \/ SchedEvents
  \/ SchedPrompt
  \/ SchedStopCheck
  \/ SchedFor
  \/ SchedAdmit
  \/ SchedDrain
  \/ SchedJoin
  \/ SchedSummary
  \/ KeyboardInterrupt
  \/ QPressed
  \/ QListenerTakesAnswer
  \/ \E j \in 1..MaxThreads : WorkerStart(j)
  \/ \E j \in 1..MaxThreads : WorkerLoopExit(j)
  \/ \E j \in 1..MaxThreads : WorkerSend(j)
  \/ \E j \in 1..MaxThreads : WorkerRaise(j)
  \/ \E j \in 1..MaxThreads : WorkerBackoff(j)
  \/ \E j \in 1..MaxThreads : WorkerEmit(j)
  \/ \E j \in 1..MaxThreads : WorkerReleaseLock(j)
  \/ \E j \in 1..MaxThreads : WorkerReleaseSem(j)

Spec == Init /\ [][Next]_vars

\* Worker threads are scheduled fairly: a thread that can take a step
\* eventually takes one (each transport call and each sleep returns).
FairSpec == Spec /\ \A j \in 1..MaxThreads : WF_vars(Worker(j))

\* one step of the scheduler thread (menu_send_rotating), the operator's
\* answer to a prompt included
Sched ==
  \/ SchedWhile
  \/ SchedEvents
  \/ SchedPrompt
  \/ SchedStopCheck
  \/ SchedFor
  \/ SchedAdmit
  \/ SchedDrain
  \/ SchedJoin
  \/ SchedSummary

\* The scheduler thread and the worker threads are scheduled fairly, every
\* timed wait, sleep and transport call returns, and the operator answers
\* every prompt.
LiveSpec == Spec /\ WF_vars(Sched) /\ \A j \in 1..MaxThreads : WF_vars(Worker(j))

\* ---------------------------------------------------------------- scenario
\* The campaign of 3 accounts, cap 2, concurrency 2 and a lead file of 7
\* lines, none contacted before, in which every transport call succeeds, the
\* ledger file can be written, and the operator neither presses Q nor Ctrl+C.
ScenarioInit ==
  /\ InitWith(3, 2, 2, [i \in 1..7 |-> LeadLine(i)], <<>>)
  /\ call = NoCall

\* at most one thread per unit of budget: 3 accounts with cap 2
ScenarioJobs == 1..(3 * 2)

\* one step of the scheduler thread (menu_send_rotating) in the scenario
ScenarioSched ==
  \/ SchedWhile
  \/ SchedEvents /\ ~exc'
  \/ SchedStopCheck
  \/ SchedFor
  \/ SchedAdmit
  \/ SchedDrain /\ ~exc'
  \/ SchedJoin
  \/ SchedSummary

\* one step of worker thread j in the scenario: _client_for and _send_dm
\* return and the send succeeded
ScenarioWorker(j) ==
  \/ WorkerStart(j)
  \/ WorkerLoopExit(j)
  \/ WorkerSend(j) /\ threads'[j].success_flag
  \/ WorkerEmit(j)
  \/ WorkerReleaseLock(j)
  \/ WorkerReleaseSem(j)

ScenarioNext ==
  \/ ScenarioSched
  \/ \E j \in ScenarioJobs : ScenarioWorker(j)

\* The scheduler thread and every worker thread keep running: each sleep,
\* timed wait and transport call returns.
ScenarioSpec ==
  /\ ScenarioInit
  /\ [][ScenarioNext]_vars
  /\ WF_vars(ScenarioSched)
  /\ \A j \in ScenarioJobs : WF_vars(ScenarioWorker(j))

\* ----------------------------------------------------------- jitter_delay
Max(a, b) == IF a >= b THEN a ELSE b

\* a jitter_delay that returns the upper limit when the limits are not in order
jitter_delay_upper(min_seconds, max_seconds) ==
  IF max_seconds <= min_seconds
    THEN {max_seconds}
    ELSE min_seconds..max_seconds

\* runtime.jitter_delay: the values the call can return (random.randint draws
\* any integer of min_seconds..max_seconds)
jitter_delay(min_seconds, max_seconds) ==
  IF max_seconds <= min_seconds
    THEN {Max(min_seconds, 0)}
    ELSE min_seconds..max_seconds

\* no campaign is running (the last one returned at ig.py:348)
Idle == InitWith(1, MinPerAcc, MinConcurr, <<>>, <<>>)

\* a call jitter_delay(min_seconds, max_seconds) about to run, for any limits
\* from -1 to MaxDelay; ret is <<>> until the call returns r, then <<r>>
JitterInit ==
  /\ Idle
  /\ \E lo \in (0 - 1)..MaxDelay, hi \in (0 - 1)..MaxDelay :
       call = [fn |-> "jitter_delay", min_seconds |-> lo, max_seconds |-> hi,
               ret |-> <<>>]

\* the call returns
JitterReturn ==
  /\ call.fn = "jitter_delay"
  /\ call.ret = <<>>
  /\ \E r \in jitter_delay(call.min_seconds, call.max_seconds) :
       call' = [call EXCEPT !.ret = <<r>>]
  /\ UNCHANGED <<accounts, per_acc, concurr, users, remaining, success, failed,
                 semaphore, account_locks, result_queue, threads, STOP_EVENT,
                 ledger, LIVE_COUNTS, spc, idx, prompt, exc, consumed,
                 summaries, admitsAfterStop, ledger0, users0, sched_holds>>

JitterSpec == JitterInit /\ [][JitterReturn]_vars

\* --------------------------------------------------------- sleep_with_stop
\* a loop condition that does not look at the flag
SleepGoesOnDeaf(slept, total_seconds, flag) == slept < total_seconds

\* runtime.py:105  "while slept < total_seconds and not STOP_EVENT.is_set()"
SleepGoesOn(slept, total_seconds, flag) == slept < total_seconds /\ ~flag

\* runtime.py:106  interval = min(step, total_seconds - slept)
SleepInterval(slept, total_seconds, step) == Min(step, total_seconds - slept)

\* a call sleep_with_stop(total_seconds, step=step) about to run, for any
\* total from -1 to MaxDelay and any step from 1 to MaxStep (the default is 1),
\* while no campaign of this process is changing anything but the flag.
\* slept is the local of line 104; pc is "while" at the loop condition,
\* "sleep" inside time.sleep, "returned" after the loop; intervals is history:
\* the intervals given to time.sleep, in order.
SleepInit ==
  /\ Idle
  /\ \E total \in (0 - 1)..MaxDelay, step \in 1..MaxStep :
       call = [fn |-> "sleep_with_stop", total_seconds |-> total, step |-> step,
               slept |-> 0, pc |-> "while", intervals |-> <<>>]

\* runtime.py:105-107  the loop condition is evaluated; when it holds the
\* interval is computed and time.sleep(interval) begins
SleepWhile ==
  /\ call.fn = "sleep_with_stop"
  /\ call.pc = "while"
  /\ call' = IF SleepGoesOn(call.slept, call.total_seconds, STOP_EVENT)
               THEN [call EXCEPT
                       !.pc = "sleep",
                       !.intervals =
                         Append(@, SleepInterval(call.slept, call.total_seconds, call.step))]
               ELSE [call EXCEPT !.pc = "returned"]
  /\ UNCHANGED <<accounts, per_acc, concurr, users, remaining, success, failed,
                 semaphore, account_locks, result_queue, threads, STOP_EVENT,
                 ledger, LIVE_COUNTS, spc, idx, prompt, exc, consumed,
                 summaries, admitsAfterStop, ledger0, users0, sched_holds>>

\* runtime.py:107-108  time.sleep(interval) returns; slept += interval
SleepWake ==
  /\ call.fn = "sleep_with_stop"
  /\ call.pc = "sleep"
  /\ call' = [call EXCEPT
                !.slept = @ + call.intervals[Len(call.intervals)],
                !.pc = "while"]
  /\ UNCHANGED <<accounts, per_acc, concurr, users, remaining, success, failed,
                 semaphore, account_locks, result_queue, threads, STOP_EVENT,
                 ledger, LIVE_COUNTS, spc, idx, prompt, exc, consumed,
                 summaries, admitsAfterStop, ledger0, users0, sched_holds>>

\* another thread calls request_stop while the call is running, or did so
\* before it began
SleepStopRequested ==
  /\ call.fn = "sleep_with_stop"
  /\ call.pc # "returned"
  /\ ~STOP_EVENT
  /\ STOP_EVENT' = request_stop(STOP_EVENT)
  /\ UNCHANGED <<accounts, per_acc, concurr, users, remaining, success, failed,
                 semaphore, account_locks, result_queue, threads, call,
                 ledger, LIVE_COUNTS, spc, idx, prompt, exc, consumed,
                 summaries, admitsAfterStop, ledger0, users0, sched_holds>>

SleepNext ==
  \/ SleepWhile
  \/ SleepWake
  \/ SleepStopRequested

SleepSpec == SleepInit /\ [][SleepNext]_vars

\* ------------------------------------------------------------ account gate
\* An account of the store (accounts.list_all) with what the gate will find
\* out about it: has_session is session_store.has_session, session_ok the
\* outcome of _ensure_session at the first check, login_ok the outcome of
\* prompt_login (password asked, login, session saved), recheck_ok the outcome
\* of _ensure_session after that login.
StoredAccount(alias, active, has_sess, session_ok, login_ok, recheck_ok) ==
  [alias |-> alias, active |-> active, has_session |-> has_sess,
   session_ok |-> session_ok, login_ok |-> login_ok, recheck_ok |-> recheck_ok]

\* the accounts considered: of another alias; inactive; with a usable
\* session; without session file, login and re-check passing; with an expired
\* session and a failing login; with an expired session, a passing login and
\* a failing re-check
StoredAccounts ==
  { StoredAccount("otro", TRUE, TRUE, TRUE, TRUE, TRUE),
    StoredAccount("ventas", FALSE, TRUE, TRUE, TRUE, TRUE),
    StoredAccount("ventas", TRUE, TRUE, TRUE, TRUE, TRUE),
    StoredAccount("ventas", TRUE, FALSE, FALSE, TRUE, TRUE),
    StoredAccount("ventas", TRUE, TRUE, FALSE, FALSE, FALSE),
    StoredAccount("ventas", TRUE, TRUE, FALSE, TRUE, FALSE) }

\* the account stores considered; the username of an account is its position
AccountStores ==
  UNION {[1..n -> StoredAccounts] : n \in 1..MaxStored}

\* ig.py:219  accounts of the alias that are active
InAlias(store, alias) ==
  SelectSeq([i \in DOMAIN store |-> i],
            LAMBDA u : store[u].alias = alias /\ store[u].active)

\* ig.py:229-234  the first check: a saved session exists and _client_for
\* opens it
SessionUsable(r) == r.has_session /\ r.session_ok

\* a re-authentication that is not checked again
LoginOnly(r) == r.login_ok

\* ig.py:243  prompt_login(username) and _ensure_session(username)
Reauthenticated(r) == r.login_ok /\ r.recheck_ok

\* ig._build_accounts_for_alias: the verified accounts, those that passed the
\* first check in store order, then, when the operator answered "s", those
\* re-authenticated, in store order
_build_accounts_for_alias(store, alias, answer) ==
  LET all_acc == InAlias(store, alias)
      verified == SelectSeq(all_acc, LAMBDA u : SessionUsable(store[u]))
      needing_login == SelectSeq(all_acc, LAMBDA u : ~SessionUsable(store[u])) IN
  IF answer = "s"
    THEN verified \o SelectSeq(needing_login, LAMBDA u : Reauthenticated(store[u]))
    ELSE verified

\* the lead file of the campaigns started through the gate
GateLeads == <<LeadLine(1), LeadLine(2)>>

\* menu_send_rotating after _schedule_inputs (ig.py:319-338), about to call
\* _build_accounts_for_alias for the alias "ventas": the flag is reset, the
\* counters are seeded, nothing of the campaign exists yet.  answer is what
\* the operator will say to "¿Iniciar sesión ahora?".
GateInit ==
  /\ \E store \in AccountStores, answer \in {"s", "n"} :
       call = [fn |-> "_build_accounts_for_alias", store |-> store,
               alias |-> "ventas", answer |-> answer]
  /\ accounts = <<>>
  /\ per_acc = MinPerAcc
  /\ concurr = MinConcurr
  /\ users = <<>>
  /\ users0 = <<>>
  /\ remaining = <<>>
  /\ success = <<>>
  /\ failed = <<>>
  /\ semaphore = 0
  /\ account_locks = <<>>
  /\ result_queue = <<>>
  /\ threads = <<>>
  /\ STOP_EVENT = FALSE
  /\ ledger = <<>>
  /\ ledger0 = <<>>
  /\ LIVE_COUNTS = ResetLiveCounters(<<>>)
  /\ spc = "gate"
  /\ idx = 1
  /\ prompt = NoPrompt
  /\ exc = FALSE
  /\ consumed = 0
  /\ summaries = 0
  /\ admitsAfterStop = 0
  /\ sched_holds = 0

\* ig.py:340-369  the gate returns the verified accounts; with none the
\* function returns (line 341-342), otherwise the lead list is loaded and
\* filtered and the budgets, locks and semaphore are created for the
\* accounts returned
GateBuild ==
  /\ spc = "gate"
  /\ LET verified == _build_accounts_for_alias(call.store, call.alias, call.answer)
         names == {verified[i] : i \in DOMAIN verified}
         filtered == SelectSeq(GateLeads, LAMBDA u : ~already_contacted(u, ledger)) IN
     IF verified = <<>>
       THEN /\ spc' = "returned"
            /\ UNCHANGED <<accounts, users, users0, remaining, success, failed,
                           semaphore, account_locks>>
       ELSE /\ accounts' = verified
            /\ users' = filtered
            /\ users0' = filtered
            /\ remaining' = [a \in names |-> per_acc]
            /\ success' = [a \in names |-> 0]
            /\ failed' = [a \in names |-> 0]
            /\ semaphore' = concurr
            /\ account_locks' = [a \in names |-> FALSE]
            /\ spc' = StartPosition(filtered)
  /\ UNCHANGED <<call, per_acc, concurr, result_queue, threads, STOP_EVENT,
                 ledger, LIVE_COUNTS, idx, prompt, exc, consumed, summaries,
                 admitsAfterStop, ledger0, sched_holds>>

GateNext ==
  \/ GateBuild
  \/ Next

GateSpec == GateInit /\ [][GateNext]_vars

\* ------------------------------------------------------------------ claims
\* jobs admitted for account a
Admitted(a) == Cardinality({j \in DOMAIN threads : threads[j].username = a})

\* jobs whose worker has not yet released its concurrency slot
InFlight == {j \in DOMAIN threads : threads[j].pc # "done"}

\* worker positions at which the account lock is still held
LockHeldPcs == {"start", "loop", "backoff", "emit", "jitter"}

\* jobs of account a whose worker has not yet released the account lock
HoldingLock(a) ==
  {j \in DOMAIN threads : threads[j].username = a /\ threads[j].pc \in LockHeldPcs}

\* C1: for every account, the number of jobs admitted for it is at most the
\* per-account cap, in every reachable state.
C1_AdmittedWithinCap ==
  \A a \in Usernames : Admitted(a) <= per_acc

\* An account has used its whole cap, its budget is zero, and recipients are
\* still queued.
C1_Witness ==
  \E a \in Usernames :
    /\ Admitted(a) = per_acc
    /\ remaining[a] = 0
    /\ users # <<>>

\* C2: the number of in-flight jobs (slot not yet released, backoff and jitter
\* sleeps included) is at most the concurrency cap.
C2_InFlightWithinConcurrency ==
  Cardinality(InFlight) <= concurr

\* Every slot is taken, one holder sleeping in backoff or jitter, and the
\* for-loop reaches an account that lacks nothing but a slot.
C2_Witness ==
  /\ Cardinality(InFlight) = concurr
  /\ \E j \in InFlight : threads[j].pc \in {"backoff", "jitter"}
  /\ spc = "for"
  /\ idx \in DOMAIN accounts
  /\ ~BudgetSpent(accounts[idx])
  /\ users # <<>>
  /\ ~account_locks[accounts[idx]]
  /\ semaphore = 0

\* C3: each account has at most one job whose worker has not released the
\* account lock; a second job is admitted only after that release.
C3_AccountExclusive ==
  \A a \in Usernames : Cardinality(HoldingLock(a)) <= 1

\* A second job of an account runs while the first, having released the lock,
\* still holds its slot.
C3_Witness ==
  \E j, k \in DOMAIN threads :
    /\ j < k
    /\ threads[j].username = threads[k].username
    /\ threads[j].pc = "release_sem"
    /\ threads[k].pc \in LockHeldPcs

\* C4: every admitted job puts exactly one result event on the queue, on every
\* path through the worker: none before its finally clause, one from then on;
\* and every event put is on the queue or was consumed.
C4_ExactlyOneEvent ==
  /\ \A j \in DOMAIN threads :
       threads[j].emitted =
         IF threads[j].pc \in {"start", "loop", "backoff", "emit"} THEN 0 ELSE 1
  /\ Len(result_queue) + consumed =
       Cardinality({j \in DOMAIN threads : threads[j].emitted > 0})

\* One job ended after its event without any transport call (cancelled before
\* its first attempt) and the event of a job that exhausted its retries is on
\* the queue.
C4_Witness ==
  /\ \E j \in DOMAIN threads :
       threads[j].pc = "done" /\ ~threads[j].called /\ threads[j].emitted = 1
  /\ \E k \in DOMAIN threads, e \in DOMAIN result_queue :
       /\ threads[k].pc = "jitter" /\ threads[k].emitted = 1
       /\ result_queue[e].username = threads[k].username
       /\ result_queue[e].lead = threads[k].lead
       /\ result_queue[e].detail = "proxy sin respuesta"

\* C5 (as claimed): when the final summary is produced, every result event
\* put by an admitted job has been consumed by the aggregator.
C5_AllEventsConsumedAtSummary ==
  spc \in {"summary", "done"} =>
    /\ result_queue = <<>>
    /\ consumed = Cardinality({j \in DOMAIN threads : threads[j].emitted > 0})

\* C6 (as claimed): the number of ledger records written by the campaign
\* equals the number of result events consumed.
C6_RecordsEqualConsumed ==
  Len(ledger) - Len(ledger0) = consumed

\* C7: a handle that appears, compared case-insensitively, in any ledger record
\* at campaign start is never in the recipient queue nor the target of a job.
C7_NoContactedRecipient ==
  \A i \in DOMAIN ledger0 :
    /\ \A j \in DOMAIN threads : Lower(threads[j].lead) # Lower(ledger0[i].to)
    /\ \A k \in DOMAIN users : Lower(users[k]) # Lower(ledger0[i].to)

\* The ledger held a failed send to ANA by another account; the file's first
\* line, Ana, was filtered out and the first job targets bob.
C7_Witness ==
  /\ ledger0 # <<>>
  /\ ledger0[1].to = "ANA"
  /\ ~ledger0[1].ok
  /\ threads # <<>>
  /\ threads[1].lead = "bob"

\* C8: once the flag is set, the scheduler starts no further admission: only
\* an admission already in progress (lock and slot acquired) completes, so at
\* most one job is admitted with the flag set.
C8_NoAdmissionAfterStop ==
  [][/\ (STOP_EVENT /\ spc # "admit") => spc' # "admit"
     /\ admitsAfterStop' <= 1]_vars

\* An admission in progress when the flag was set has completed.
C8_Witness ==
  /\ admitsAfterStop = 1
  /\ STOP_EVENT

\* no job is running and every lock and slot is free, but for those the
\* scheduler thread itself holds
AllJobsReleased ==
  /\ \A j \in DOMAIN threads : threads[j].pc = "done"
  /\ semaphore = concurr - (IF sched_holds = 0 THEN 0 ELSE 1)
  /\ \A a \in Usernames : account_locks[a] <=> (a = sched_holds)

\* C9: once the flag is set, every admitted job eventually ends and has
\* released its account lock and its slot (each transport call returns, each
\* sleep ends).
C9_JobsReleaseAfterStop ==
  STOP_EVENT ~> AllJobsReleased

\* The flag is set, a job that never called the transport has ended, and all
\* locks and slots are back.
C9_Witness ==
  /\ STOP_EVENT
  /\ AllJobsReleased
  /\ \E j \in DOMAIN threads : ~threads[j].called
  /\ \E j \in DOMAIN threads : threads[j].called

\* C10 (as claimed): a campaign that admitted jobs and has ended, on whatever
\* exit path, printed the final summary exactly once.
C10_SummaryExactlyOnce ==
  (spc \in {"done", "crashed"} /\ threads # <<>>) => summaries = 1

\* C11 (as claimed): when the final summary is produced, every worker thread
\* has ended, every account lock is free and every concurrency slot is back.
C11_ResourcesFreeAtSummary ==
  spc \in {"summary", "done"} =>
    /\ \A j \in DOMAIN threads : threads[j].pc = "done"
    /\ \A a \in Usernames : ~account_locks[a]
    /\ semaphore = concurr

\* C12: a budget is never negative; no step raises it (a step leaves it, lowers
\* it by one, or sets it to zero); and an account whose budget is zero keeps
\* it at zero and gets no further job.
C12_BudgetMonotone ==
  [][\A a \in Usernames :
       /\ remaining[a] >= 0
       /\ remaining'[a] >= 0
       /\ remaining'[a] \in {remaining[a], remaining[a] - 1, 0}
       /\ remaining'[a] <= remaining[a]
       /\ remaining[a] = 0 =>
            /\ remaining'[a] = 0
            /\ Cardinality({j \in DOMAIN threads' : threads'[j].username = a})
                 = Admitted(a)]_vars

\* The for-loop visits an account the operator retired before it used its
\* cap, with recipients queued, its lock free and a slot free.
C12_Witness ==
  /\ spc = "for"
  /\ idx \in DOMAIN accounts
  /\ remaining[accounts[idx]] = 0
  /\ Admitted(accounts[idx]) < per_acc
  /\ users # <<>>
  /\ ~account_locks[accounts[idx]]
  /\ semaphore > 0
  /\ ~STOP_EVENT

\* the scheduling loop of ig.py:444-496 has ended
LoopEnded == spc \in {"drain", "join", "summary", "done", "crashed"}

\* C13: in the scenario the admission loop ends, and when it has ended exactly
\* 6 jobs were admitted, 2 per account, exactly 1 recipient is left in the
\* queue and every budget is zero; the loop ends with the flag clear, on the
\* budgets alone.
C13_ScenarioSixAdmitted ==
  /\ <>LoopEnded
  /\ [](LoopEnded =>
         /\ Len(threads) = 6
         /\ \A a \in Usernames : Admitted(a) = 2 /\ remaining[a] = 0
         /\ Len(users) = 1)
  /\ [](spc = "drain" => ~STOP_EVENT)

\* The loop has just ended in the scenario: six jobs, one recipient left, the
\* flag clear.
C13_Witness ==
  /\ spc = "drain"
  /\ Len(accounts) = 3
  /\ Len(threads) = 6
  /\ Len(users) = 1
  /\ ~STOP_EVENT
  /\ \A a \in Usernames : remaining[a] = 0

\* sum(counts.values()) over the accounts in S
RECURSIVE SumValues(_, _)
SumValues(counts, S) ==
  IF S = {} THEN 0
  ELSE LET a == CHOOSE x \in S : TRUE IN counts[a] + SumValues(counts, S \ {a})

\* C14 (as claimed): in the scenario, when the summary is produced it shows 6
\* successes and 0 failures, all six jobs called the transport, and the ledger
\* holds the six success records.
C14_ScenarioSixSuccesses ==
  spc \in {"summary", "done"} =>
    /\ SumValues(success, Usernames) = 6
    /\ SumValues(failed, Usernames) = 0
    /\ \A j \in DOMAIN threads : threads[j].called
    /\ sent_totals(ledger) = <<6, 0>>

\* C15 (as claimed): a job that is about to put its event with the flag clear,
\* having met nothing but proxy-unreachable faults in its attempts, made
\* exactly 3 attempts, and its event is a failure with detail "proxy sin
\* respuesta" and the attention message naming the account.
C15_ProxyFaultsThreeAttempts ==
  \A j \in DOMAIN threads :
    (/\ threads[j].pc = "emit"
     /\ ~STOP_EVENT
     /\ threads[j].attempts >= 1
     /\ threads[j].faults = {"infra"}
     /\ ~threads[j].success_flag) =>
      /\ threads[j].attempts = 3
      /\ threads[j].detail = "proxy sin respuesta"
      /\ threads[j].attention = ProxyAttention(threads[j].username)

\* C16: when the operator answers the prompt with "continue without account",
\* the affected account's budget becomes zero and the other budgets, the
\* recipient queue and the flag are unchanged; asked from the scheduling loop,
\* the scheduler goes back to the loop (next event, then admission), not to
\* the drain.
C16_ContinueFrame ==
  [][PromptAnswer("1") =>
       /\ remaining'[prompt.username] = 0
       /\ \A a \in Usernames \ {prompt.username} : remaining'[a] = remaining[a]
       /\ users' = users
       /\ STOP_EVENT' = STOP_EVENT
       /\ prompt.ret = "loop" => spc' = "events"]_vars

\* An account was retired by the operator before using its cap, and the
\* scheduler, the flag clear, is admitting a job for another account that has
\* budget.
C16_Witness ==
  /\ spc = "admit"
  /\ ~STOP_EVENT
  /\ remaining[accounts[idx]] > 0
  /\ \E a \in Usernames \ {accounts[idx]} :
       remaining[a] = 0 /\ Admitted(a) < per_acc

\* C17: a campaign whose recipient list is empty after the filtering has
\* returned: it is never in the loop, starts no thread, takes no lock nor
\* slot, and writes no ledger record.
C17_EmptyListReturns ==
  users0 = <<>> =>
    /\ spc = "returned"
    /\ threads = <<>>
    /\ ledger = ledger0
    /\ semaphore = concurr
    /\ \A a \in Usernames : remaining[a] = per_acc /\ ~account_locks[a]
    /\ summaries = 0

\* The ledger was not empty and the filtered list is: the campaign returned.
C17_Witness ==
  /\ users0 = <<>>
  /\ ledger0 # <<>>
  /\ spc = "returned"

\* C18 (as claimed): a job that met a policy fault in an attempt, whichever
\* the step, puts a failure event that carries an attention message.
C18_PolicyFaultAttention ==
  \A j \in DOMAIN threads :
    (threads[j].pc = "emit" /\ "policy" \in threads[j].faults) =>
      /\ ~threads[j].success_flag
      /\ threads[j].attention # None

\* C19 (as claimed): a failure of the ledger write while an event is processed
\* does not take the scheduler out of its loop and drain: the campaign does
\* not end on it without its summary.
C19_LedgerFailureContained ==
  exc => spc \in TryPcs

\* C20: a job makes at most 3 attempts; it makes a further attempt only when
\* every attempt so far met an infrastructure fault; and an attempt that met
\* any other fault, or whose send returned failure, ends the job as failed
\* (the worker goes to its finally clause with a failure detail) and leaves
\* the flag as it was.
C20_RetryOnlyInfrastructure ==
  [][\A j \in DOMAIN threads :
       LET t == threads[j]
           u == threads'[j] IN
       /\ t.attempts <= 3
       /\ u.attempts <= 3
       /\ u.attempts > t.attempts =>
            /\ t.pc = "loop"
            /\ t.attempts >= 1 => (t.faults = {"infra"} /\ ~t.success_flag)
            /\ "policy" \in u.faults =>
                 /\ u.pc = "emit"
                 /\ ~u.success_flag
                 /\ u.detail # ""
                 /\ STOP_EVENT' = STOP_EVENT
       /\ (t.pc = "emit" /\ u.pc # "emit") => u.attempts = 0]_vars

\* A job met a proxy fault, was retried, met a policy fault in its second
\* attempt and goes to its finally clause, the flag clear.
C20_Witness ==
  \E j \in DOMAIN threads :
    /\ threads[j].pc = "emit"
    /\ threads[j].attempts = 2
    /\ threads[j].retries = 1
    /\ threads[j].faults = {"infra", "policy"}
    /\ ~threads[j].success_flag
    /\ ~STOP_EVENT

\* C25: for limits that are not negative, jitter_delay returns min_seconds when
\* max_seconds <= min_seconds, and otherwise an integer from min_seconds to
\* max_seconds.
C25_JitterDelay ==
  (/\ call.fn = "jitter_delay"
   /\ call.ret # <<>>
   /\ call.min_seconds >= 0
   /\ call.max_seconds >= 0) =>
    IF call.max_seconds <= call.min_seconds
      THEN call.ret[1] = call.min_seconds
      ELSE /\ call.ret[1] \in Int
           /\ call.min_seconds <= call.ret[1]
           /\ call.ret[1] <= call.max_seconds

\* A call with max_seconds below min_seconds has returned min_seconds.
C25_Witness ==
  /\ call.fn = "jitter_delay"
  /\ call.max_seconds >= 0
  /\ call.max_seconds < call.min_seconds
  /\ call.ret = <<call.min_seconds>>

\* C28: the recipients of the jobs admitted so far, in admission order,
\* followed by the recipient queue, are the filtered recipient list of the
\* campaign's start.
C28_RecipientsInOrder ==
  [j \in 1..Len(threads) |-> threads[j].lead] \o users = users0

\* C21 (as claimed): whenever the admission loop has ended, the recipient
\* queue is empty, or every budget is zero, or the flag is set; nothing else
\* (a failed job in particular) ends it.
C21_LoopEndsOnlyWhen ==
  LoopEnded =>
    \/ users = <<>>
    \/ \A a \in Usernames : remaining[a] = 0
    \/ STOP_EVENT

\* C22: the flag is clear when the campaign starts; a request_stop on a set
\* flag leaves it set (the call is idempotent); and no step of the campaign
\* clears a set flag.
C22_FlagLifecycle ==
  /\ ~STOP_EVENT
  /\ [][/\ STOP_EVENT => STOP_EVENT'
        /\ STOP_EVENT => request_stop(STOP_EVENT) = STOP_EVENT
        /\ request_stop(request_stop(STOP_EVENT)) = request_stop(STOP_EVENT)]_vars

\* The flag was set during the loop (a job was admitted with it set) and the
\* finally clause, the queue being empty, has requested the stop again.
C22_Witness ==
  /\ STOP_EVENT
  /\ admitsAfterStop = 1
  /\ users = <<>>
  /\ spc = "summary"

\* C23: every step leaves the ledger's contents as a prefix of its new
\* contents: records are only appended.
C23_LedgerAppendOnly ==
  [][/\ Len(ledger') >= Len(ledger)
     /\ SubSeq(ledger', 1, Len(ledger)) = ledger]_vars

\* Two records were appended to a ledger that was not empty, after the
\* dedup check of the start.
C23_Witness ==
  /\ ledger0 # <<>>
  /\ Len(ledger) = Len(ledger0) + 2
  /\ SubSeq(ledger, 1, Len(ledger0)) = ledger0

\* C24 (as claimed): no step lowers the displayed success total or failure
\* total (base from the ledger plus this run's counter), the re-seeding at the
\* campaign's end included, and a step that consumes an event raises exactly
\* one of the two by one.
C24_TotalsMonotone ==
  [][/\ get_message_totals'[1] >= get_message_totals[1]
     /\ get_message_totals'[2] >= get_message_totals[2]
     /\ consumed' = consumed + 1 =>
          get_message_totals'[1] + get_message_totals'[2]
            = get_message_totals[1] + get_message_totals[2] + 1]_vars

\* C26 (as claimed): when the drain ends with the flag clear (no pause, no Q,
\* no interrupt so far) and the finally clause sets the flag, every job has
\* already finished.
C26_FlagClearUntilJobsFinish ==
  [][(SchedDrain /\ result_queue = <<>> /\ ~STOP_EVENT /\ STOP_EVENT') =>
       \A j \in DOMAIN threads : threads[j].pc = "done"]_vars

\* C27: an iteration of the for-loop that reaches the two acquisitions and
\* fails (the account lock is held, or no slot is free) leaves the recipient
\* queue, the budgets, the threads, the locks and the semaphore as they were,
\* and the scheduler holds neither a lock nor a slot; it goes on with the
\* next account.
C27_FailedAdmissionFrame ==
  [][(/\ SchedFor
      /\ idx \in DOMAIN accounts
      /\ ~STOP_EVENT
      /\ remaining[accounts[idx]] > 0
      /\ users # <<>>
      /\ (account_locks[accounts[idx]] \/ semaphore = 0)) =>
       /\ users' = users
       /\ remaining' = remaining
       /\ threads' = threads
       /\ account_locks' = account_locks
       /\ semaphore' = semaphore
       /\ sched_holds' = 0
       /\ spc' = "for"
       /\ idx' = idx + 1]_vars

\* The for-loop has just passed over an account that has its whole budget,
\* with recipients queued and the flag clear: no job was ever admitted for
\* it, so its lock was free and the slot was not obtained; the lock is free
\* again and the scheduler holds nothing.
C27_Witness ==
  /\ spc = "for"
  /\ idx > 1
  /\ ~STOP_EVENT
  /\ users # <<>>
  /\ Admitted(accounts[idx - 1]) = 0
  /\ remaining[accounts[idx - 1]] = per_acc
  /\ ~account_locks[accounts[idx - 1]]
  /\ sched_holds = 0

\* C29: a job that has released its account lock or its slot has put its
\* event; a job in its jitter sleep has put its event and still holds both;
\* so of two jobs of one account, the earlier has put its event.
C29_EventBeforeRelease ==
  /\ \A j \in DOMAIN threads :
       /\ threads[j].pc \in {"release_sem", "done"} => threads[j].emitted = 1
       /\ threads[j].pc = "jitter" =>
            /\ threads[j].emitted = 1
            /\ account_locks[threads[j].username]
            /\ semaphore < concurr
  /\ \A j, k \in DOMAIN threads :
       (j < k /\ threads[j].username = threads[k].username) =>
         threads[j].emitted = 1

\* The second job of an account has not started yet and the event of the
\* first is still on the queue.
C29_Witness ==
  \E j, k \in DOMAIN threads :
    /\ j < k
    /\ threads[j].username = threads[k].username
    /\ threads[k].pc = "start"
    /\ \E e \in DOMAIN result_queue :
         /\ result_queue[e].username = threads[j].username
         /\ result_queue[e].lead = threads[j].lead

\* C30: a worker that has made no transport call and finds the flag set makes
\* none: its next step takes it to the finally clause with a failure and no
\* attention message; and a job that ended without a transport call has put
\* its event and holds no lock.
C30_AbortBeforeFirstCall ==
  [][\A j \in DOMAIN threads :
       LET t == threads[j]
           u == threads'[j] IN
       /\ (t.pc \in {"start", "loop"} /\ t.attempts = 0 /\ STOP_EVENT /\ u # t) =>
            /\ u.pc = "emit"
            /\ ~u.called
            /\ u.attempts = 0
            /\ ~u.success_flag
            /\ u.attention = None
       /\ (u.pc = "done" /\ ~u.called) => u.emitted = 1]_vars

\* A job that found the flag set at its start has ended without a transport
\* call, its lock and its slot released.
C30_Witness ==
  \E j \in DOMAIN threads :
    /\ threads[j].pc = "done"
    /\ ~threads[j].called
    /\ threads[j].emitted = 1
    /\ ~account_locks[threads[j].username]
    /\ semaphore = concurr
    /\ sched_holds = 0

\* sum of the integers of a sequence
RECURSIVE SumSeq(_)
SumSeq(q) == IF q = <<>> THEN 0 ELSE Head(q) + SumSeq(Tail(q))

\* C31: sleep_with_stop sleeps in intervals that are positive and no longer
\* than its step; it begins an interval only at a check of the flag that finds
\* it clear, so with the flag set on entry it returns without sleeping; and a
\* call that returns with the flag never set slept intervals that sum to
\* exactly total (a duration: total >= 0).
C31_SleepWithStop ==
  [][call.fn = "sleep_with_stop" =>
       /\ \A i \in DOMAIN call'.intervals :
            call'.intervals[i] > 0 /\ call'.intervals[i] <= call.step
       /\ Len(call'.intervals) > Len(call.intervals) =>
            (~STOP_EVENT /\ call.pc = "while")
       /\ (call.pc = "while" /\ STOP_EVENT /\ call' # call) =>
            (call'.pc = "returned" /\ call'.intervals = call.intervals)
       /\ (call'.pc = "returned" /\ ~STOP_EVENT' /\ call.total_seconds >= 0) =>
            /\ SumSeq(call'.intervals) = call.total_seconds
            /\ call'.slept = call.total_seconds]_vars

\* A call with a total that is not a multiple of its step has returned with
\* the flag clear: the last interval was shorter than the step.
C31_Witness ==
  /\ call.fn = "sleep_with_stop"
  /\ call.pc = "returned"
  /\ ~STOP_EVENT
  /\ Len(call.intervals) >= 2
  /\ call.intervals[Len(call.intervals)] < call.step

\* C32 (as claimed): a step that consumes an event carrying an attention
\* message counts it, appends its ledger record and opens the prompt for its
\* account; the prompt opens on no other step; while it is open no job is
\* admitted; the answer "1" zeroes the account's budget and leaves the flag,
\* any other answer sets the flag and leaves the budgets; and a step that
\* consumes an event without attention message opens no prompt.
C32_AttentionPrompts ==
  [][/\ consumed' = consumed + 1 =>
          LET event == Head(result_queue)
              u == event.username IN
          IF event.attention # None
            THEN /\ success'[u] + failed'[u] = success[u] + failed[u] + 1
                 /\ Len(ledger') = Len(ledger) + 1
                 /\ ledger'[Len(ledger')].to = event.lead
                 /\ spc' = "prompt"
                 /\ prompt'.username = u
            ELSE spc' # "prompt"
     /\ (spc # "prompt" /\ spc' = "prompt") => consumed' = consumed + 1
     /\ spc = "prompt" => (Len(threads') = Len(threads) /\ spc' # "admit")
     /\ PromptAnswer("1") =>
          (remaining'[prompt.username] = 0 /\ STOP_EVENT' = STOP_EVENT)
     /\ PromptAnswer("2") =>
          (STOP_EVENT' /\ remaining' = remaining)]_vars

\* the account passed the gate: of the alias, active, and its session usable
\* at the first check or after a login the operator agreed to
PassedGate(r) ==
  /\ r.alias = call.alias
  /\ r.active
  /\ \/ r.has_session /\ r.session_ok
     \/ call.answer = "s" /\ r.login_ok /\ r.recheck_ok

\* C33: once the gate has run, every account of the admission loop has the
\* campaign's alias, is active and passed the session check, at the first
\* check or after a successful login followed by a passing re-check; every
\* job belongs to such an account; and an account that did not pass is not in
\* the loop and has no job.
C33_OnlyReadyAccounts ==
  (call.fn = "_build_accounts_for_alias" /\ spc # "gate") =>
    /\ \A i \in DOMAIN accounts : PassedGate(call.store[accounts[i]])
    /\ \A j \in DOMAIN threads : PassedGate(call.store[threads[j].username])
    /\ \A u \in DOMAIN call.store :
         ~PassedGate(call.store[u]) =>
           /\ \A i \in DOMAIN accounts : accounts[i] # u
           /\ Admitted(u) = 0
           /\ u \notin Usernames

\* A job was admitted for an account that had no saved session and logged in
\* at the gate, while the other account of the alias, whose re-check failed,
\* is not in the loop.
C33_Witness ==
  /\ call.fn = "_build_accounts_for_alias"
  /\ threads # <<>>
  /\ ~call.store[threads[1].username].has_session
  /\ \E u \in DOMAIN call.store :
       /\ call.store[u].alias = call.alias
       /\ call.store[u].active
       /\ call.store[u].login_ok
       /\ ~call.store[u].recheck_ok
       /\ \A i \in DOMAIN accounts : accounts[i] # u

\* C34: a step that consumes an event consumes the one put first (the queue
\* loses its head, and the counter and ledger record are those of that event),
\* and a put adds its event at the end, so events are consumed in the order
\* they were put; a step that changes the ledger, the counters, the budgets or
\* the recipient queue is a step of the scheduler thread and no step of a
\* worker: no worker thread moves in it.
C34_SingleConsumerInOrder ==
  [][/\ consumed' = consumed + 1 =>
          LET e == Head(result_queue) IN
          /\ result_queue' = Tail(result_queue)
          /\ success' = IF e.success THEN [success EXCEPT ![e.username] = @ + 1]
                        ELSE success
          /\ failed' = IF e.success THEN failed
                       ELSE [failed EXCEPT ![e.username] = @ + 1]
          /\ ledger' # ledger =>
               /\ ledger'[Len(ledger')].account = e.username
               /\ ledger'[Len(ledger')].to = e.lead
               /\ ledger'[Len(ledger')].ok = e.success
     /\ consumed' # consumed => consumed' = consumed + 1
     /\ Len(result_queue') > Len(result_queue) =>
          SubSeq(result_queue', 1, Len(result_queue)) = result_queue
     /\ (\/ ledger' # ledger
         \/ success' # success
         \/ failed' # failed
         \/ LIVE_COUNTS' # LIVE_COUNTS
         \/ remaining' # remaining
         \/ users' # users
         \/ consumed' # consumed) =>
          /\ spc \in TryPcs \cup FinallyPcs
          /\ \A j \in DOMAIN threads : threads'[j] = threads[j]]_vars

\* Two jobs of different accounts have put their events, which differ, and
\* the scheduler is about to take one off the queue.
C34_Witness ==
  /\ spc = "events"
  /\ Len(result_queue) = 2
  /\ result_queue[1].username # result_queue[2].username
  /\ result_queue[1].success # result_queue[2].success

\* C35 (as claimed): under fair scheduling, with every transport call
\* returning and every prompt answered, a campaign that enters its admission
\* loop eventually prints its final summary.
C35_CampaignReachesSummary ==
  (spc = "while") ~> (spc = "done" /\ summaries = 1)

\* the campaign has ended: menu_send_rotating returned after its summary
CampaignEnded == spc = "done"

\* C36 (as claimed): when a campaign has ended, every successful send of its
\* jobs is in the ledger: no success event is left on the queue, the campaign
\* wrote one success record per success counted, and so the filter of a later
\* campaign (already_contacted on this ledger) removes every recipient a job
\* of this campaign sent to.
C36_SuccessesLedgeredAtEnd ==
  CampaignEnded =>
    /\ \A i \in DOMAIN result_queue :
         result_queue[i].success => already_contacted(result_queue[i].lead, ledger)
    /\ sent_totals(ledger)[1] - sent_totals(ledger0)[1]
         = SumValues(success, Usernames)
           + Cardinality({i \in DOMAIN result_queue : result_queue[i].success})

\* C37 (as claimed): no two jobs of a campaign target the same handle,
\* compared without regard to letter case, whatever the lead file holds.
C37_NoRecipientTwice ==
  \A j, k \in DOMAIN threads :
    j # k => Lower(threads[j].lead) # Lower(threads[k].lead)

\* C38 (as claimed): every ledger record written by the campaign names the
\* recipient of a job that made at least one transport call; the recipient of
\* a job that was cancelled before its first attempt has no record and
\* already_contacted does not hold for it on account of this campaign.
C38_RecordOnlyAfterTransport ==
  \A i \in DOMAIN ledger :
    i > Len(ledger0) =>
      \E j \in DOMAIN threads :
        /\ threads[j].username = ledger[i].account
        /\ threads[j].lead = ledger[i].to
        /\ threads[j].called

\* C39 (as claimed): while a prompt is waiting, no line the operator typed as
\* the answer was read by the Q listener: the prompt receives it.
C39_PromptReceivesAnswer ==
  spc = "prompt" => ~prompt.lost

\* C40: in a job that has not yet put its event, the backoff waits so far are
\* none, 5, or 5 then 10 seconds, one per infrastructure fault below the
\* ceiling of 3; the wait after the k-th fault is min(30, 5*k); the third
\* fault is followed by no wait; and the waits of a job sum to at most 15
\* seconds.
C40_BackoffWaits ==
  \A j \in DOMAIN threads :
    LET t == threads[j] IN
    /\ t.waits \in {<<>>, <<5>>, <<5, 10>>}
    /\ SumSeq(t.waits) <= 15
    /\ t.pc = "backoff" =>
         /\ t.retries < 3
         /\ Len(t.waits) = t.retries
         /\ t.waits[t.retries] = Min(30, 5 * t.retries)
    /\ t.pc \in {"start", "loop", "emit"} =>
         Len(t.waits) = Min(t.retries, 2)

\* A job met three proxy faults: it waited 5 then 10 seconds and goes to its
\* finally clause without a third wait.
C40_Witness ==
  \E j \in DOMAIN threads :
    /\ threads[j].pc = "emit"
    /\ threads[j].retries = 3
    /\ threads[j].waits = <<5, 10>>
    /\ threads[j].detail = "proxy sin respuesta"

====
